---- MODULE Spec2Model ----
(***************************************************************************)
(* Model of the prime sieve engines of primenumbersolver:                  *)
(*   BasicSieve  (dense std::vector<bool>),                                *)
(*   BitSieve    (packed std::vector<uint64_t>),                           *)
(*   WheelSieve  (std::vector<bool> walked with the 2,3,5 wheel),          *)
(* and their OpenMP subclasses ParallelBasicSieve, ParallelBitSieve and    *)
(* ParallelWheelSieve built on ParallelSieveBase.                          *)
(*                                                                         *)
(* A 64-bit storage word is modelled as the set of its bit positions that  *)
(* are 1, so `w & ~(1 << b)` is `w \ {b}` and ~0ULL is 0..63.              *)
(***************************************************************************)
EXTENDS Integers, Sequences, FiniteSets, TLC

(* ------------------------------ bounds --------------------------------- *)
\* largest limit given to a sequential engine
MaxLimit == 80
\* largest limit given to a parallel engine (ParallelWheelSieve is also given 49)
MaxParLimit == 9
\* isPrime is called with the arguments limit - ProbeSpan .. limit + 2
ProbeSpan == 3
\* largest value std::thread::hardware_concurrency() reports (0 is allowed)
MaxHardware == 1

(* ------------------------- program constants --------------------------- *)
WHEEL_SIZE == 30
WHEEL_PRIMES_COUNT == 8
WHEEL_SKIP ==
  <<4, 2, 4, 2, 4, 6, 2, 6, 4, 2, 4, 2, 4, 6, 2,
    6, 4, 2, 4, 2, 4, 6, 2, 6, 4, 2, 4, 2, 4, 6>>
WHEEL_PRIMES == <<7, 11, 13, 17, 19, 23, 29, 31>>
\* bits per uint64_t word (the 64 of `index / 64`, `index % 64`)
WordBits == 64
\* 2^64 mod 30: what an unsigned (current - 7) wraps by, modulo WHEEL_SIZE
SizeWrapMod30 == 16

\* what omp_get_max_threads() reports, which is the size of every team the
\* engines start (no num_threads clause, no omp_set_num_threads call):
\* a single thread or a team of two
OmpMaxThreads == {1, 2}

SeqClasses == {"BasicSieve", "BitSieve", "WheelSieve"}
ParClasses == {"ParallelBasicSieve", "ParallelBitSieve", "ParallelWheelSieve"}
\* the thread arguments the engines are constructed with (0 = auto-detect)
ThreadArgs == {-1, 0, 1, 2, 4, 8}

\* the storage family a class inherits
Family(c) ==
  CASE c \in {"BasicSieve", "ParallelBasicSieve"} -> "Basic"
    [] c \in {"BitSieve", "ParallelBitSieve"} -> "Bit"
    [] OTHER -> "Wheel"

\* n is a prime number (the mathematical reference, not program code)
IsPrimeNumber(n) == n >= 2 /\ \A d \in 2..(n - 1) : n % d # 0

(* ------------------------------ BasicSieve ----------------------------- *)
\* BasicSieve::BasicSieve: resize(limit + 1, true); sieve[0] = sieve[1] = false
BasicInit(n) == [i \in 0..n |-> i \notin {0, 1}]

\* the indices a marking loop `for (i = start; i <= n; i += p)` visits
Multiples(start, n, p) == {i \in start..n : (i - start) % p = 0}

\* inner loop of BasicSieve::generate: for (i = p*p; i <= limit; i += p) sieve[i] = false
BasicMark(s, n, p) ==
  [i \in DOMAIN s |-> IF i \in Multiples(p * p, n, p) THEN FALSE ELSE s[i]]

\* BasicLoop with the loop bound written `p * p < limit`
RECURSIVE BasicLoopStrict(_, _, _)
BasicLoopStrict(s, n, p) ==
  IF p * p < n
    THEN BasicLoopStrict(IF s[p] THEN BasicMark(s, n, p) ELSE s, n, p + 1)
    ELSE s

\* outer loop of BasicSieve::generate: for (p = 2; p * p <= limit; ++p) if (sieve[p]) ...
RECURSIVE BasicLoop(_, _, _)
BasicLoop(s, n, p) ==
  IF p * p <= n
    THEN BasicLoop(IF s[p] THEN BasicMark(s, n, p) ELSE s, n, p + 1)
    ELSE s

BasicGenerate(s, n) == BasicLoop(s, n, 2)

\* loop of BasicSieve::getPrimes: for (i = 2; i <= limit; ++i) if (sieve[i]) push_back(i)
\* (the ascending scan of lo..hi is evaluated by halves to keep the evaluation shallow)
RECURSIVE BasicScan(_, _, _)
BasicScan(s, lo, hi) ==
  IF lo > hi THEN <<>>
  ELSE IF lo = hi THEN (IF s[lo] THEN <<lo>> ELSE <<>>)
  ELSE LET mid == (lo + hi) \div 2
       IN BasicScan(s, lo, mid) \o BasicScan(s, mid + 1, hi)

BasicGetPrimes(s, n) == BasicScan(s, 2, n)

\* loop of BasicSieve::getPrimeCount: ++count for every i in 2..limit with sieve[i]
RECURSIVE BasicCountIn(_, _, _)
BasicCountIn(s, lo, hi) ==
  IF lo > hi THEN 0
  ELSE IF lo = hi THEN (IF s[lo] THEN 1 ELSE 0)
  ELSE LET mid == (lo + hi) \div 2
       IN BasicCountIn(s, lo, mid) + BasicCountIn(s, mid + 1, hi)

BasicGetPrimeCount(s, n) == BasicCountIn(s, 2, n)

(* ------------------------------- BitSieve ------------------------------ *)
\* BitSieve::getBit: bit (index % 64) of word (index / 64) is 1
getBit(b, index) == (index % WordBits) \in b[index \div WordBits]

\* BitSieve::clearBit: bits[index / 64] &= ~(1ULL << (index % 64))
clearBit(b, index) ==
  [b EXCEPT ![index \div WordBits] = @ \ {index % WordBits}]

\* BitSieve::BitSieve: (limit + 1 + 63) / 64 words of ~0ULL, then clearBit(0), clearBit(1)
BitInit(n) ==
  LET arraySize == (n + 1 + 63) \div 64
      allOnes == [w \in 0..(arraySize - 1) |-> 0..(WordBits - 1)]
      b0 == clearBit(allOnes, 0)
  IN IF n >= 1 THEN clearBit(b0, 1) ELSE b0

\* inner loop of BitSieve::generate: for (i = p*p; i <= limit; i += p) clearBit(i)
BitMark(b, n, p) ==
  [w \in DOMAIN b |->
     b[w] \ {i % WordBits : i \in {j \in Multiples(p * p, n, p) : j \div WordBits = w}}]

RECURSIVE BitLoop(_, _, _)
BitLoop(b, n, p) ==
  IF p * p <= n
    THEN BitLoop(IF getBit(b, p) THEN BitMark(b, n, p) ELSE b, n, p + 1)
    ELSE b

BitGenerate(b, n) == BitLoop(b, n, 2)

RECURSIVE BitScan(_, _, _)
BitScan(b, lo, hi) ==
  IF lo > hi THEN <<>>
  ELSE IF lo = hi THEN (IF getBit(b, lo) THEN <<lo>> ELSE <<>>)
  ELSE LET mid == (lo + hi) \div 2
       IN BitScan(b, lo, mid) \o BitScan(b, mid + 1, hi)

\* a getPrimes that scans to the end of the last word instead of the limit
BitGetPrimesWholeWords(b, n) == BitScan(b, 2, Cardinality(DOMAIN b) * WordBits - 1)

\* BitSieve::getPrimes: for (i = 2; i <= limit; ++i) if (getBit(i)) push_back(i)
BitGetPrimes(b, n) == BitScan(b, 2, n)

RECURSIVE BitCountIn(_, _, _)
BitCountIn(b, lo, hi) ==
  IF lo > hi THEN 0
  ELSE IF lo = hi THEN (IF getBit(b, lo) THEN 1 ELSE 0)
  ELSE LET mid == (lo + hi) \div 2
       IN BitCountIn(b, lo, mid) + BitCountIn(b, mid + 1, hi)

\* BitSieve::getPrimeCount
BitGetPrimeCount(b, n) == BitCountIn(b, 2, n)

\* BitSieve::getMemoryUsage: bits.size() * sizeof(uint64_t)
BitGetMemoryUsage(b) == Cardinality(DOMAIN b) * 8

\* a constructor that pre-marks the multiples of 2 and 3 only
WheelInitNoFive(n) ==
  [i \in 0..n |->
     IF i \in {2, 3, 5} THEN TRUE
     ELSE i \notin {0, 1} /\ i % 2 # 0 /\ i % 3 # 0]

(* ------------------------------ WheelSieve ----------------------------- *)
\* WheelSieve::WheelSieve: all true, 0 and 1 false, multiples of 2, 3, 5 false,
\* then 2, 3, 5 set back to true
WheelInit(n) ==
  [i \in 0..n |->
     IF i \in {2, 3, 5} THEN TRUE
     ELSE i \notin {0, 1} /\ i % 2 # 0 /\ i % 3 # 0 /\ i % 5 # 0]

\* (current - 7) % WHEEL_SIZE in std::size_t arithmetic (wraps below 7)
WheelRemainder(current) ==
  IF current >= 7
    THEN (current - 7) % WHEEL_SIZE
    ELSE (current - 7 + WHEEL_SIZE + SizeWrapMod30) % WHEEL_SIZE

\* WheelSieve::numToWheelIndex
numToWheelIndex(num) ==
  IF num < 7 THEN 0
  ELSE LET remainder == (num - 7) % WHEEL_SIZE
           quotient == (num - 7) \div WHEEL_SIZE
       IN quotient * WHEEL_PRIMES_COUNT + remainder

\* WheelSieve::wheelIndexToNum (WHEEL_PRIMES[k] of the code is WHEEL_PRIMES[k + 1] here)
wheelIndexToNum(index) ==
  IF index < WHEEL_PRIMES_COUNT THEN WHEEL_PRIMES[index + 1]
  ELSE LET quotient == index \div WHEEL_PRIMES_COUNT
           remainder == index % WHEEL_PRIMES_COUNT
       IN 7 + quotient * WHEEL_SIZE + (WHEEL_PRIMES[remainder + 1] - 7)

\* WheelSieve::getNextWheelNumber
getNextWheelNumber(current) ==
  IF current < 2 THEN 2
  ELSE IF current = 2 THEN 3
  ELSE IF current = 3 THEN 5
  ELSE IF current = 5 THEN 7
  ELSE current + WHEEL_SKIP[WheelRemainder(current) + 1]

\* inner loop of WheelSieve::generate
RECURSIVE WheelMark(_, _, _, _)
WheelMark(s, n, p, multiple) ==
  IF multiple <= n
    THEN LET nxt == getNextWheelNumber(multiple)
         IN WheelMark([s EXCEPT ![multiple] = FALSE], n, p,
                      IF nxt % p # 0 THEN nxt + p ELSE nxt)
    ELSE s

\* outer loop of WheelSieve::generate
RECURSIVE WheelLoop(_, _, _)
WheelLoop(s, n, p) ==
  IF p * p <= n
    THEN WheelLoop(IF s[p] THEN WheelMark(s, n, p, p * p) ELSE s,
                   n, getNextWheelNumber(p))
    ELSE s

WheelGenerate(s, n) == WheelLoop(s, n, 7)

\* the wheel walk of WheelSieve::getPrimes: for (i = 7; i <= limit; i = getNextWheelNumber(i))
RECURSIVE WheelScan(_, _, _, _)
WheelScan(s, n, i, acc) ==
  IF i <= n
    THEN WheelScan(s, n, getNextWheelNumber(i), IF s[i] THEN Append(acc, i) ELSE acc)
    ELSE acc

\* WheelSieve::getPrimes with `if (limit > 5)` for `if (limit >= 5)`
WheelGetPrimesSkip5(s, n) ==
  LET p2 == IF n >= 2 THEN <<2>> ELSE <<>>
      p3 == IF n >= 3 THEN Append(p2, 3) ELSE p2
      p5 == IF n > 5 THEN Append(p3, 5) ELSE p3
  IN WheelScan(s, n, 7, p5)

WheelGetPrimes(s, n) ==
  LET p2 == IF n >= 2 THEN <<2>> ELSE <<>>
      p3 == IF n >= 3 THEN Append(p2, 3) ELSE p2
      p5 == IF n >= 5 THEN Append(p3, 5) ELSE p3
  IN WheelScan(s, n, 7, p5)

RECURSIVE WheelCountFrom(_, _, _, _)
WheelCountFrom(s, n, i, count) ==
  IF i <= n
    THEN WheelCountFrom(s, n, getNextWheelNumber(i), IF s[i] THEN count + 1 ELSE count)
    ELSE count

\* WheelSieve::getPrimeCount with `if (limit > 3)` for `if (limit >= 3)`
WheelGetPrimeCountSkip3(s, n) ==
  LET c2 == IF n >= 2 THEN 1 ELSE 0
      c3 == IF n > 3 THEN c2 + 1 ELSE c2
      c5 == IF n >= 5 THEN c3 + 1 ELSE c3
  IN WheelCountFrom(s, n, 7, c5)

WheelGetPrimeCount(s, n) ==
  LET c2 == IF n >= 2 THEN 1 ELSE 0
      c3 == IF n >= 3 THEN c2 + 1 ELSE c2
      c5 == IF n >= 5 THEN c3 + 1 ELSE c3
  IN WheelCountFrom(s, n, 7, c5)

\* WheelSieve::getMemoryUsage: sieve.size() * sizeof(bool)
WheelGetMemoryUsage(s) == Cardinality(DOMAIN s)

(* --------------------------- ParallelSieveBase -------------------------- *)
\* ParallelSieveBase::getOptimalThreadCount: std::min(omp_get_max_threads(), hardware_concurrency())
getOptimalThreadCount(maxThreads, logicalCores) ==
  IF maxThreads <= logicalCores THEN maxThreads ELSE logicalCores

\* threadCount(threads > 0 ? threads : getOptimalThreadCount())
ResolveThreadCount(threads, maxThreads, logicalCores) ==
  IF threads > 0 THEN threads ELSE getOptimalThreadCount(maxThreads, logicalCores)

\* useParallel(threads != 1)
ResolveUseParallel(threads) == threads # 1

\* static_cast<std::size_t>(std::sqrt(limit))
SqrtLimit(n) == CHOOSE r \in 0..n : r * r <= n /\ (r + 1) * (r + 1) > n

(* -------------------------------- state -------------------------------- *)
VARIABLES
  cls,                  \* the class of the engine under test
  limit,                \* limit
  sieve,                \* std::vector<bool> sieve (BasicSieve, WheelSieve)
  bits,                 \* std::vector<uint64_t> bits (BitSieve)
  generated,            \* generated
  threadCount,          \* ParallelSieveBase::threadCount
  useParallel,          \* ParallelSieveBase::useParallel
  ompMaxThreads,        \* what omp_get_max_threads() returns on this platform
  hardwareConcurrency,  \* what std::thread::hardware_concurrency() returns
  call,                 \* the public operation that is inside a parallel generate()
  master,               \* the thread running the loop of ParallelWheelSieve::generate
  workers,              \* the OpenMP team of the running parallel region
  ret                   \* what the last public operation returned or threw

vars == <<cls, limit, sieve, bits, generated, threadCount, useParallel,
          ompMaxThreads, hardwareConcurrency, call, master, workers, ret>>

config == <<cls, limit, ompMaxThreads, hardwareConcurrency>>
storage == <<sieve, bits>>
threadCfg == <<threadCount, useParallel>>
region == <<call, master, workers>>

NoCall == [op |-> "none", arg |-> 0]
NoMaster == [pc |-> "none", p |-> 0, next |-> 0]
NoWorkers == <<>>

Returned(op, arg) ==
  [op |-> op, arg |-> arg, err |-> "none", primes |-> <<>>, count |-> 0, flag |-> FALSE]
Threw(op, arg, what) ==
  [op |-> op, arg |-> arg, err |-> what, primes |-> <<>>, count |-> 0, flag |-> FALSE]

IsParallelClass == cls \in ParClasses

\* the constructor of the storage family
InitSieve(c, n) ==
  CASE Family(c) = "Basic" -> BasicInit(n)
    [] Family(c) = "Wheel" -> WheelInit(n)
    [] OTHER -> <<>>
InitBits(c, n) == IF Family(c) = "Bit" THEN BitInit(n) ELSE <<>>

\* the sequential generate() of the storage family, on the vector<bool>
SeqGenerateSieve(c, s, n) ==
  CASE Family(c) = "Basic" -> BasicGenerate(s, n)
    [] Family(c) = "Wheel" -> WheelGenerate(s, n)
    [] OTHER -> s
\* ... and on the word array
SeqGenerateBits(c, b, n) == IF Family(c) = "Bit" THEN BitGenerate(b, n) ELSE b

\* the loop of getPrimes() of the storage family
GetPrimesOf(c, s, b, n) ==
  CASE Family(c) = "Basic" -> BasicGetPrimes(s, n)
    [] Family(c) = "Bit" -> BitGetPrimes(b, n)
    [] OTHER -> WheelGetPrimes(s, n)

\* the loop of getPrimeCount() of the storage family
GetPrimeCountOf(c, s, b, n) ==
  CASE Family(c) = "Basic" -> BasicGetPrimeCount(s, n)
    [] Family(c) = "Bit" -> BitGetPrimeCount(b, n)
    [] OTHER -> WheelGetPrimeCount(s, n)

\* what isPrime(num) returns after its checks: sieve[num] or getBit(num)
StoredFlag(c, s, b, num) ==
  IF Family(c) = "Bit" THEN getBit(b, num) ELSE s[num]

\* isPrime's range check: if (num > limit) throw std::invalid_argument
ExceedsLimit(num, n) == num > n

\* a generate() without the guard
MustGenerateAlways(g) == TRUE

\* the guard of every generate(): if (generated) return;
MustGenerate(g) == ~g

\* a generate() that forgets `generated = true`
GeneratedAfterStale == FALSE

\* what generate() leaves in the generated flag: generated = true
GeneratedAfter == TRUE

\* Parallel*Sieve::generate takes the OpenMP path unless (!useParallel || threadCount <= 1)
ParallelPath(up, tc) == ~(~up \/ tc <= 1)

\* Which generate() a not-yet-generated engine runs.  generate() is virtual
\* in BasicSieve and BitSieve and declared `override` in all three parallel
\* classes, so generate() called directly and the generate() inside
\* getPrimes / isPrime / getPrimeCount both reach the override of a parallel
\* engine, which takes the OpenMP path or falls back to the base class.
RunsParallelGenerate ==
  /\ IsParallelClass
  /\ ParallelPath(useParallel, threadCount)

\* the value a public operation returns once the engine is generated
Result(op, arg, s, b) ==
  CASE op = "getPrimes" ->
         [Returned(op, arg) EXCEPT !.primes = GetPrimesOf(cls, s, b, limit)]
    [] op = "getPrimeCount" ->
         [Returned(op, arg) EXCEPT !.count = GetPrimeCountOf(cls, s, b, limit)]
    [] op = "isPrime" ->
         [Returned(op, arg) EXCEPT !.flag = StoredFlag(cls, s, b, arg)]
    [] OTHER -> Returned(op, arg)

(* --------------------------- the OpenMP teams --------------------------- *)
\* #pragma omp parallel for schedule(static) over p = 2..sqrtLimit: the
\* iterations are split into one contiguous block per thread, the first
\* (count % team) threads getting one more.
StaticFirst(t, team, count) ==
  LET q == count \div team
      r == count % team
  IN IF t < r THEN t * (q + 1) ELSE r * (q + 1) + (t - r) * q
StaticSize(t, team, count) ==
  LET q == count \div team
      r == count % team
  IN IF t < r THEN q + 1 ELSE q

Idle == [pc |-> "done", p |-> 0, hi |-> 0, i |-> 0, reg |-> {}, found |-> 0]

\* the team at the start of the outer loop of Parallel{Basic,Bit}Sieve::generate
OuterTeam(team, n) ==
  LET sqrtLimit == SqrtLimit(n)
      count == IF sqrtLimit >= 2 THEN sqrtLimit - 1 ELSE 0
  IN [t \in 0..(team - 1) |->
        IF StaticSize(t, team, count) = 0 THEN Idle
        ELSE [Idle EXCEPT
                !.pc = "check",
                !.p = 2 + StaticFirst(t, team, count),
                !.hi = 2 + StaticFirst(t, team, count) + StaticSize(t, team, count) - 1]]

SetMin(S) == CHOOSE x \in S : \A y \in S : x <= y

\* ParallelWheelSieve::markMultiplesParallel:
\* chunkSize = std::max((end - start) / (threadCount * 8), 200)
WheelChunkSize(n, prime, tc) ==
  LET q == (n - prime * prime) \div (tc * 8)
  IN IF q > 200 THEN q ELSE 200

\* #pragma omp parallel for schedule(static, chunkSize) over
\* i = start, start + prime, ... <= end: iteration k belongs to the thread
\* (k / chunkSize) % team.  The indices thread t marks:
WheelOwnIndices(t, team, n, prime, tc) ==
  {i \in Multiples(prime * prime, n, prime) :
     (((i - prime * prime) \div prime) \div WheelChunkSize(n, prime, tc)) % team = t}

\* the team at the start of the parallel-for of ParallelWheelSieve::markMultiplesParallel
MarkTeam(team, n, prime, tc) ==
  [t \in 0..(team - 1) |->
     LET own == WheelOwnIndices(t, team, n, prime, tc)
     IN IF own = {} THEN Idle
        ELSE [Idle EXCEPT !.pc = "load", !.p = prime, !.i = SetMin(own)]]

\* the team entering `#pragma omp parallel reduction(+:found)` of
\* ParallelWheelSieve::getNextWheelNumberParallel, each with its private found = 0
StepTeam(team) == [t \in 0..(team - 1) |-> [Idle EXCEPT !.pc = "test"]]


\* the storage word that holds index i, as the set of its 1 bits
\* (std::vector<bool> packs 64 flags into one unsigned long)
SieveWord(s, i) == {j \in DOMAIN s : j \div WordBits = i \div WordBits /\ s[j]}
\* storing a word of the vector<bool> back
StoreSieveWord(s, i, w) ==
  [j \in DOMAIN s |-> IF j \div WordBits = i \div WordBits THEN j \in w ELSE s[j]]

\* ++p of the outer loop inside one thread's block
NextCandidate(w) ==
  IF w.p + 1 <= w.hi
    THEN [Idle EXCEPT !.pc = "check", !.p = w.p + 1, !.hi = w.hi]
    ELSE Idle

\* `i += prime` of a marking loop: the next index this thread marks, if any
NextMark(t, w) ==
  IF Family(cls) = "Wheel"
    THEN LET rest == {j \in WheelOwnIndices(t, ompMaxThreads, limit, w.p, threadCount) :
                        j > w.i}
         IN IF rest = {} THEN Idle
            ELSE [w EXCEPT !.pc = "load", !.i = SetMin(rest), !.reg = {}]
    ELSE IF w.i + w.p <= limit
           THEN [w EXCEPT !.pc = "load", !.i = w.i + w.p, !.reg = {}]
           ELSE NextCandidate(w)

\* next % 2 != 0 && next % 3 != 0 && next % 5 != 0
OnWheel(n) == n % 2 # 0 /\ n % 3 # 0 /\ n % 5 # 0

\* the smallest limit at which `while (p * p <= limit)` of
\* ParallelWheelSieve::generate is entered: p starts at 7
FirstWheelSquare == WHEEL_PRIMES[1] * WHEEL_PRIMES[1]

\* the limits the engines are constructed with
Limits(c) ==
  IF c \in SeqClasses THEN 0..MaxLimit
  ELSE IF Family(c) = "Wheel"
    THEN (0..MaxParLimit) \cup {FirstWheelSquare}
  ELSE 0..MaxParLimit

(* -------------------------------- Init --------------------------------- *)
Init ==
  /\ cls \in SeqClasses \cup ParClasses
  /\ limit \in Limits(cls)
  /\ sieve = InitSieve(cls, limit)
  /\ bits = InitBits(cls, limit)
  /\ generated = FALSE
  /\ ompMaxThreads \in (IF cls \in SeqClasses THEN {1} ELSE OmpMaxThreads)
  /\ hardwareConcurrency \in (IF cls \in SeqClasses THEN {1} ELSE 0..MaxHardware)
  /\ \E threads \in (IF cls \in SeqClasses THEN {1} ELSE ThreadArgs) :
        /\ threadCount = ResolveThreadCount(threads, ompMaxThreads, hardwareConcurrency)
        /\ useParallel = ResolveUseParallel(threads)
  /\ call = NoCall
  /\ master = NoMaster
  /\ workers = NoWorkers
  /\ ret = Returned("construct", 0)

(* ------------------------- public operations --------------------------- *)
\* a query that skips `if (!generated) generate();` and reads the storage as
\* it stands
EnterNoGenerate(op, arg) ==
  /\ call = NoCall
  /\ UNCHANGED <<config, threadCfg>>
  /\ IF ~MustGenerate(generated) \/ op # "generate"
       THEN /\ ret' = Result(op, arg, sieve, bits)
            /\ UNCHANGED <<storage, generated, region>>
       ELSE /\ sieve' = SeqGenerateSieve(cls, sieve, limit)
            /\ bits' = SeqGenerateBits(cls, bits, limit)
            /\ generated' = GeneratedAfter
            /\ ret' = Result(op, arg, sieve', bits')
            /\ UNCHANGED region

\* `if (!generated) generate();` followed by the body of the operation op:
\* either the engine is generated already, or generate() runs to completion
\* here (sequential path), or the OpenMP path is entered and the operation
\* completes when generate() returns.
Enter(op, arg) ==
  /\ call = NoCall
  /\ UNCHANGED <<config, threadCfg>>
  /\ IF ~MustGenerate(generated)
       THEN /\ ret' = Result(op, arg, sieve, bits)
            /\ UNCHANGED <<storage, generated, region>>
     ELSE IF RunsParallelGenerate
       THEN /\ call' = [op |-> op, arg |-> arg]
            /\ IF Family(cls) = "Wheel"
                 THEN /\ master' = [pc |-> "outer", p |-> WHEEL_PRIMES[1], next |-> 0]
                      /\ workers' = NoWorkers
                 ELSE /\ master' = NoMaster
                      /\ workers' = OuterTeam(ompMaxThreads, limit)
            /\ ret' = Returned("running", 0)
            /\ UNCHANGED <<storage, generated>>
     ELSE /\ sieve' = SeqGenerateSieve(cls, sieve, limit)
          /\ bits' = SeqGenerateBits(cls, bits, limit)
          /\ generated' = GeneratedAfter
          /\ ret' = Result(op, arg, sieve', bits')
          /\ UNCHANGED region

\* generate()
Generate == Enter("generate", 0)

\* getPrimes()
GetPrimes == Enter("getPrimes", 0)

\* getPrimeCount()
GetPrimeCount == Enter("getPrimeCount", 0)

\* an isPrime(num) with `if (!generated) generate();` before the range check
IsPrimeGenerateFirst ==
  \E num \in {k \in 0..(limit + 2) : k >= limit - ProbeSpan} :
    IF ExceedsLimit(num, limit)
      THEN /\ call = NoCall
           /\ sieve' = (IF generated THEN sieve ELSE SeqGenerateSieve(cls, sieve, limit))
           /\ bits' = (IF generated THEN bits ELSE SeqGenerateBits(cls, bits, limit))
           /\ generated' = TRUE
           /\ ret' = Threw("isPrime", num, "invalid_argument")
           /\ UNCHANGED <<config, threadCfg, region>>
      ELSE Enter("isPrime", num)

\* an isPrime(num) that answers false beyond the limit instead of throwing
IsPrimeSilent ==
  \E num \in {k \in 0..(limit + 2) : k >= limit - ProbeSpan} :
    IF ExceedsLimit(num, limit)
      THEN /\ call = NoCall
           /\ ret' = Returned("isPrime", num)
           /\ UNCHANGED <<config, threadCfg, storage, generated, region>>
      ELSE Enter("isPrime", num)

\* isPrime(num)
IsPrime ==
  \E num \in {k \in 0..(limit + 2) : k >= limit - ProbeSpan} :
    IF ExceedsLimit(num, limit)
      THEN /\ call = NoCall
           /\ ret' = Threw("isPrime", num, "invalid_argument")
           /\ UNCHANGED <<config, threadCfg, storage, generated, region>>
      ELSE Enter("isPrime", num)

\* a printPrimes that generates first, as the queries do
PrintPrimesGenerating == Enter("printPrimes", 0)

\* printPrimes(perLine) and savePrimesToFile(filename): throw unless generated,
\* otherwise walk the storage like getPrimes (fileOk: the ofstream opened)
PrintPrimes ==
  /\ call = NoCall
  /\ ret' = IF ~generated THEN Threw("printPrimes", 0, "runtime_error")
            ELSE [Returned("printPrimes", 0) EXCEPT
                    !.primes = GetPrimesOf(cls, sieve, bits, limit)]
  /\ UNCHANGED <<config, threadCfg, storage, generated, region>>

SavePrimesToFile ==
  /\ call = NoCall
  /\ \E fileOk \in BOOLEAN :
       ret' = IF ~generated THEN Threw("savePrimesToFile", 0, "runtime_error")
              ELSE IF ~fileOk THEN Returned("savePrimesToFile", 0)
              ELSE [Returned("savePrimesToFile", 0) EXCEPT
                      !.flag = TRUE,
                      !.primes = GetPrimesOf(cls, sieve, bits, limit)]
  /\ UNCHANGED <<config, threadCfg, storage, generated, region>>

\* ParallelSieveBase::setThreadCount(threads)
SetThreadCount ==
  /\ IsParallelClass
  /\ call = NoCall
  /\ \E threads \in ThreadArgs :
       /\ threadCount' = ResolveThreadCount(threads, ompMaxThreads, hardwareConcurrency)
       /\ useParallel' = ResolveUseParallel(threads)
       /\ ret' = Returned("setThreadCount", threads)
  /\ UNCHANGED <<config, storage, generated, region>>

\* ParallelSieveBase::setParallelEnabled(parallel)
SetParallelEnabled ==
  /\ IsParallelClass
  /\ call = NoCall
  /\ \E parallel \in BOOLEAN :
       /\ useParallel' = parallel
       /\ ret' = Returned("setParallelEnabled", IF parallel THEN 1 ELSE 0)
  /\ UNCHANGED <<config, threadCount, storage, generated, region>>

\* BitSieve::getMemoryUsage / WheelSieve::getMemoryUsage (BasicSieve has none)
GetMemoryUsage ==
  /\ Family(cls) # "Basic"
  /\ call = NoCall
  /\ ret' = [Returned("getMemoryUsage", 0) EXCEPT
               !.count = IF Family(cls) = "Bit" THEN BitGetMemoryUsage(bits)
                         ELSE WheelGetMemoryUsage(sieve)]
  /\ UNCHANGED <<config, threadCfg, storage, generated, region>>

\* a getThreadInfo() that resolves the thread count again
GetThreadInfoResolving ==
  /\ IsParallelClass
  /\ call = NoCall
  /\ threadCount' = ResolveThreadCount(0, ompMaxThreads, hardwareConcurrency)
  /\ ret' = [Returned("getThreadInfo", 0) EXCEPT !.count = threadCount', !.flag = useParallel]
  /\ UNCHANGED <<config, useParallel, storage, generated, region>>

\* ParallelSieveBase::getThreadInfo (and getThreadCount, isParallelEnabled):
\* "Threads: <threadCount> (Parallel: Yes|No)"
GetThreadInfo ==
  /\ IsParallelClass
  /\ call = NoCall
  /\ ret' = [Returned("getThreadInfo", 0) EXCEPT !.count = threadCount, !.flag = useParallel]
  /\ UNCHANGED <<config, threadCfg, storage, generated, region>>

(* ------------- Parallel{Basic,Bit}Sieve::generate, OpenMP path ---------- *)
\* `if (sieve[p])` / `if (getBit(p))` of one thread's current candidate, and
\* the entry into markMultiplesParallel(p).  The parallel-for inside
\* markMultiplesParallel is nested in the team of generate(): with the
\* default of one active level it is run by the encountering thread alone.
CheckCandidate(t) ==
  /\ workers[t].pc = "check"
  /\ LET w == workers[t]
         isSet == StoredFlag(cls, sieve, bits, w.p)
     IN workers' = [workers EXCEPT ![t] =
          IF isSet /\ w.p * w.p <= limit
            THEN [w EXCEPT !.pc = "load", !.i = w.p * w.p]
            ELSE NextCandidate(w)]
  /\ UNCHANGED <<config, threadCfg, storage, generated, call, master, ret>>

\* the read half of `sieve[i] = false` / `bits[i / 64] &= mask` (clearBit):
\* neither is atomic, the thread reads the whole storage word
LoadWord(t) ==
  /\ workers[t].pc = "load"
  /\ LET w == workers[t]
         word == IF Family(cls) = "Bit" THEN bits[w.i \div WordBits]
                 ELSE SieveWord(sieve, w.i)
     IN workers' = [workers EXCEPT ![t] = [w EXCEPT !.pc = "store", !.reg = word]]
  /\ UNCHANGED <<config, threadCfg, storage, generated, call, master, ret>>

\* the write half: the word read, with the bit of i cleared, is written back;
\* then `i += prime`
StoreWord(t) ==
  /\ workers[t].pc = "store"
  /\ LET w == workers[t]
     IN /\ IF Family(cls) = "Bit"
             THEN /\ bits' = [bits EXCEPT ![w.i \div WordBits] = w.reg \ {w.i % WordBits}]
                  /\ UNCHANGED sieve
             ELSE /\ sieve' = StoreSieveWord(sieve, w.i, w.reg \ {w.i})
                  /\ UNCHANGED bits
        /\ workers' = [workers EXCEPT ![t] = NextMark(t, w)]
  /\ UNCHANGED <<config, threadCfg, generated, call, master, ret>>

\* the implicit barrier at the end of the parallel-for of generate(),
\* `generated = true`, and the rest of the operation that called generate()
Join ==
  /\ call # NoCall /\ master.pc = "none"
  /\ \A t \in DOMAIN workers : workers[t].pc = "done"
  /\ generated' = GeneratedAfter
  /\ ret' = Result(call.op, call.arg, sieve, bits)
  /\ call' = NoCall
  /\ workers' = NoWorkers
  /\ UNCHANGED <<config, threadCfg, storage, master>>

(* --------------- ParallelWheelSieve::generate, OpenMP path -------------- *)
\* one turn of `while (p * p <= limit)`: test the loop condition and
\* `if (sieve[p])`, then enter markMultiplesParallel(p) or go on to
\* getNextWheelNumberParallel(p); after the loop, `generated = true`.
\* (p starts at 7 and only grows, so the `current < 7` branch of
\* getNextWheelNumberParallel is never taken from generate.)
WheelOuter ==
  /\ master.pc = "outer"
  /\ UNCHANGED <<config, threadCfg, storage>>
  /\ IF master.p * master.p <= limit
       THEN /\ IF sieve[master.p]
                 THEN /\ workers' = MarkTeam(ompMaxThreads, limit, master.p, threadCount)
                      /\ master' = [master EXCEPT !.pc = "marking"]
                 ELSE /\ workers' = StepTeam(ompMaxThreads)
                      /\ master' = [master EXCEPT !.pc = "stepping", !.next = master.p + 1]
            /\ UNCHANGED <<generated, call, ret>>
       ELSE /\ generated' = GeneratedAfter
            /\ ret' = Result(call.op, call.arg, sieve, bits)
            /\ call' = NoCall
            /\ master' = NoMaster
            /\ workers' = NoWorkers

\* the barrier ending markMultiplesParallel(p); generate() goes on to
\* getNextWheelNumberParallel(p): next = current + 1, found = 0
WheelMarkJoin ==
  /\ master.pc = "marking"
  /\ \A t \in DOMAIN workers : workers[t].pc = "done"
  /\ workers' = StepTeam(ompMaxThreads)
  /\ master' = [master EXCEPT !.pc = "stepping", !.next = master.p + 1]
  /\ UNCHANGED <<config, threadCfg, storage, generated, call, ret>>

\* one thread's `while (next <= limit)` test and the wheel test of the shared
\* variable next; found is the thread's private reduction copy, so
\* `if (found) break;` only sees the thread's own 0
StepTest(t) ==
  /\ workers[t].pc = "test"
  /\ LET w == workers[t]
         r == master.next
     IN workers' = [workers EXCEPT ![t] =
          IF r <= limit
            THEN IF OnWheel(r) THEN [Idle EXCEPT !.found = 1]
                 ELSE [w EXCEPT !.pc = "incload"]
            ELSE Idle]
  /\ UNCHANGED <<config, threadCfg, storage, generated, call, master, ret>>

\* the read half of the unsynchronized `next++`
StepIncLoad(t) ==
  /\ workers[t].pc = "incload"
  /\ workers' = [workers EXCEPT ![t] = [@ EXCEPT !.pc = "incstore", !.i = master.next]]
  /\ UNCHANGED <<config, threadCfg, storage, generated, call, master, ret>>

\* a stepping loop whose `next++` writes back the value it read
StepIncStoreSame(t) ==
  /\ workers[t].pc = "incstore"
  /\ master' = [master EXCEPT !.next = workers[t].i]
  /\ workers' = [workers EXCEPT ![t] = [@ EXCEPT !.pc = "test", !.i = 0]]
  /\ UNCHANGED <<config, threadCfg, storage, generated, call, ret>>

\* the write half of `next++`
StepIncStore(t) ==
  /\ workers[t].pc = "incstore"
  /\ master' = [master EXCEPT !.next = workers[t].i + 1]
  /\ workers' = [workers EXCEPT ![t] = [@ EXCEPT !.pc = "test", !.i = 0]]
  /\ UNCHANGED <<config, threadCfg, storage, generated, call, ret>>

\* the end of the parallel region: the private copies of found are summed and
\* `return found ? next : limit + 1;` becomes the new p of generate()
WheelStepJoin ==
  /\ master.pc = "stepping"
  /\ \A t \in DOMAIN workers : workers[t].pc = "done"
  /\ master' = [pc |-> "outer",
                p |-> IF \E t \in DOMAIN workers : workers[t].found = 1
                        THEN master.next ELSE limit + 1,
                next |-> 0]
  /\ workers' = NoWorkers
  /\ UNCHANGED <<config, threadCfg, storage, generated, call, ret>>

Next ==
  \/ Generate
  \/ GetPrimes
  \/ GetPrimeCount
  \/ IsPrime
  \/ PrintPrimes
  \/ SavePrimesToFile
  \/ SetThreadCount
  \/ SetParallelEnabled
  \/ GetMemoryUsage
  \/ GetThreadInfo
  \/ \E t \in DOMAIN workers : CheckCandidate(t)
  \/ \E t \in DOMAIN workers : LoadWord(t)
  \/ \E t \in DOMAIN workers : StoreWord(t)
  \/ Join
  \/ WheelOuter
  \/ WheelMarkJoin
  \/ \E t \in DOMAIN workers : StepTest(t)
  \/ \E t \in DOMAIN workers : StepIncLoad(t)
  \/ \E t \in DOMAIN workers : StepIncStore(t)
  \/ WheelStepJoin

Spec == Init /\ [][Next]_vars

(* ------------------------------ scheduling ------------------------------ *)
\* the thread numbers of the largest team
TeamIds == UNION {0..(k - 1) : k \in OmpMaxThreads}

\* a step of thread t of the current team
ThreadStep(t) ==
  /\ t \in DOMAIN workers
  /\ \/ CheckCandidate(t)
     \/ LoadWord(t)
     \/ StoreWord(t)
     \/ StepTest(t)
     \/ StepIncLoad(t)
     \/ StepIncStore(t)

\* a step of the thread that called generate(): the barriers and the loop of
\* ParallelWheelSieve::generate
MasterStep == Join \/ WheelOuter \/ WheelMarkJoin \/ WheelStepJoin

\* generate() alone, called on a fresh engine, with the steps of its team
NextGenerate ==
  \/ Generate
  \/ MasterStep
  \/ \E t \in TeamIds : ThreadStep(t)

\* The threads of an OpenMP team are operating-system threads: each one that
\* can take a step eventually takes it.  generate() blocks its caller, so the
\* calling thread goes on as soon as its team has reached the barrier.
SpecGenerate ==
  /\ Init
  /\ [][NextGenerate]_vars
  /\ WF_vars(MasterStep)
  /\ \A t \in TeamIds : WF_vars(ThreadStep(t))

(* --------------- the private helpers of WheelSieve, applied ------------- *)
\* numToWheelIndex(num), wheelIndexToNum(index) and getNextWheelNumber(current)
\* are const and read only the wheel tables; each is applied to the numbers
\* up to the limit of a WheelSieve.
NumToWheelIndex ==
  /\ call = NoCall
  /\ \E num \in 0..limit :
       ret' = [Returned("numToWheelIndex", num) EXCEPT !.count = numToWheelIndex(num)]
  /\ UNCHANGED <<config, threadCfg, storage, generated, region>>

WheelIndexToNum ==
  /\ call = NoCall
  /\ \E index \in 0..limit :
       ret' = [Returned("wheelIndexToNum", index) EXCEPT !.count = wheelIndexToNum(index)]
  /\ UNCHANGED <<config, threadCfg, storage, generated, region>>

GetNextWheelNumber ==
  /\ call = NoCall
  /\ \E current \in 0..limit :
       ret' = [Returned("getNextWheelNumber", current) EXCEPT
                 !.count = getNextWheelNumber(current)]
  /\ UNCHANGED <<config, threadCfg, storage, generated, region>>

InitWheelHelpers == Init /\ cls = "WheelSieve"

NextWheelHelpers ==
  \/ NumToWheelIndex
  \/ WheelIndexToNum
  \/ GetNextWheelNumber

SpecWheelHelpers == InitWheelHelpers /\ [][NextWheelHelpers]_vars

(* ------------- the storage indices the operations access --------------- *)
\* std::size_t arithmetic is modular. TLC's integers are narrower than the 64
\* bits of std::size_t, so the width is a definition: the operators below
\* reduce modulo 2^SizeBits, and no bound up to MaxLimit comes near it.
SizeBits == 16
SIZE_MAX == 2^SizeBits - 1
SizeT(x) == x % (2^SizeBits)

\* sieve.resize(limit + 1, true): the number of flags allocated
VectorSize(n) == SizeT(n + 1)
\* bitCount = limit + 1; arraySize = (bitCount + 63) / 64: the number of words
BitArraySize(n) == SizeT(VectorSize(n) + 63) \div WordBits

\* the element of the storage that holds the flag of index i
Slot(c, i) == IF Family(c) = "Bit" THEN i \div WordBits ELSE i
\* the elements the constructor allocated
Allocated(c, n) ==
  IF Family(c) = "Bit" THEN 0..(BitArraySize(n) - 1) ELSE 0..(VectorSize(n) - 1)

\* the constructors' first writes: if (limit >= 0) [0]; if (limit >= 1) [1]
SentinelIndices(n) == {i \in {0, 1} : n >= i}
\* WheelSieve::WheelSieve: the three pre-marking loops and the writes of 2, 3, 5
WheelPreMarkIndices(n) ==
  Multiples(2, n, 2) \cup Multiples(3, n, 3) \cup Multiples(5, n, 5)
    \cup {i \in {2, 3, 5} : n >= i}
\* the indices a constructor writes, in program order up to the first write
\* outside the allocated elements (behaviour is undefined from there on)
CtorIndices(c, n) ==
  IF Family(c) = "Wheel" /\ \A i \in SentinelIndices(n) : Slot(c, i) \in Allocated(c, n)
    THEN SentinelIndices(n) \cup WheelPreMarkIndices(n)
    ELSE SentinelIndices(n)

\* the numbers `for (i = from; i <= n; i = getNextWheelNumber(i))` visits
RECURSIVE WheelWalk(_, _)
WheelWalk(i, n) ==
  IF i <= n THEN {i} \cup WheelWalk(getNextWheelNumber(i), n) ELSE {}

\* the indices the inner loop of WheelSieve::generate writes for p
RECURSIVE WheelMarkIndices(_, _, _)
WheelMarkIndices(n, p, multiple) ==
  IF multiple <= n
    THEN LET nxt == getNextWheelNumber(multiple)
         IN {multiple} \cup
              WheelMarkIndices(n, p, IF nxt % p # 0 THEN nxt + p ELSE nxt)
    ELSE {}

\* the candidates p whose flag a generate() may read: the outer loops of the
\* sequential generate()s, `for (p = 2; p <= sqrtLimit; ++p)` of the parallel
\* Basic and Bit overrides, and any p from 7 with p * p <= limit for the
\* stepping of ParallelWheelSieve::generate
GenerateCandidates(c, n, par) ==
  IF Family(c) = "Wheel"
    THEN IF par THEN {q \in 7..n : q * q <= n}
                ELSE {q \in WheelWalk(7, n) : q * q <= n}
    ELSE {q \in 2..n : q * q <= n}

\* the indices one iteration of generate()'s outer loop accesses for p: the
\* flag of p, and the marking loop when p is flagged
GenerateIndices(c, n, par, p, flagged) ==
  {p} \cup
    (IF ~flagged THEN {}
     ELSE IF Family(c) = "Wheel" /\ ~par THEN WheelMarkIndices(n, p, p * p)
     ELSE Multiples(p * p, n, p))

\* the indices the scanning loops of getPrimes() and getPrimeCount() read
ScanIndices(c, n) == IF Family(c) = "Wheel" THEN WheelWalk(7, n) ELSE 2..n

\* the record of an operation's accesses: whether it accessed storage, and the
\* highest index it used (indices are unsigned, so none is below 0)
Accessed(op, arg, idx) ==
  [Returned(op, arg) EXCEPT
     !.flag = (idx # {}),
     !.count = IF idx = {} THEN 0 ELSE CHOOSE m \in idx : \A k \in idx : k <= m]

\* the accesses recorded last stayed inside the allocated elements
InRange == ret.flag => Slot(cls, ret.count) \in Allocated(cls, limit)

\* the engine after its constructor: the storage as allocated, and the
\* constructor's accesses
InitStorageAccess ==
  /\ cls \in SeqClasses \cup ParClasses
  /\ limit \in (0..MaxLimit) \cup {SIZE_MAX}
  /\ sieve = IF Family(cls) = "Bit" THEN <<>>
             ELSE [i \in 0..(VectorSize(limit) - 1) |-> InitSieve(cls, limit)[i]]
  /\ bits = IF Family(cls) # "Bit" THEN <<>>
            ELSE [w \in 0..(BitArraySize(limit) - 1) |-> InitBits(cls, limit)[w]]
  /\ generated = FALSE
  /\ ompMaxThreads = (IF cls \in SeqClasses THEN 1 ELSE 2)
  /\ hardwareConcurrency = (IF cls \in SeqClasses THEN 1 ELSE 2)
  /\ \E threads \in (IF cls \in SeqClasses THEN {1} ELSE {1, 2}) :
        /\ threadCount = ResolveThreadCount(threads, ompMaxThreads, hardwareConcurrency)
        /\ useParallel = ResolveUseParallel(threads)
  /\ call = NoCall
  /\ master = NoMaster
  /\ workers = NoWorkers
  /\ ret = Accessed("construct", 0, CtorIndices(cls, limit))

\* one iteration of the outer loop of generate(), for a candidate p
GenerateIteration ==
  /\ InRange
  /\ \E p \in GenerateCandidates(cls, limit, RunsParallelGenerate) :
       ret' = Accessed("generate", p,
                GenerateIndices(cls, limit, RunsParallelGenerate, p,
                                StoredFlag(cls, sieve, bits, p)))
  /\ UNCHANGED <<config, threadCfg, storage, generated, region>>

\* the scanning loop of getPrimes() or getPrimeCount()
ScanAccess ==
  /\ InRange
  /\ \E op \in {"getPrimes", "getPrimeCount"} :
       ret' = Accessed(op, 0, ScanIndices(cls, limit))
  /\ UNCHANGED <<config, threadCfg, storage, generated, region>>

\* isPrime(num): the range check, then the read of the flag of num
IsPrimeAccess ==
  /\ InRange
  /\ \E num \in {k \in 0..(limit + 2) : k >= limit - ProbeSpan} :
       ret' = IF ExceedsLimit(num, limit)
                THEN Threw("isPrime", num, "invalid_argument")
                ELSE Accessed("isPrime", num, {num})
  /\ UNCHANGED <<config, threadCfg, storage, generated, region>>

NextStorageAccess ==
  \/ GenerateIteration
  \/ ScanAccess
  \/ IsPrimeAccess

SpecStorageAccess == InitStorageAccess /\ [][NextStorageAccess]_vars

(* ------------------------------- claims -------------------------------- *)
\* what each sequential variant returns from getPrimes() for the bound n
DensePrimes(n) == BasicGetPrimes(BasicGenerate(BasicInit(n), n), n)
PackedPrimes(n) == BitGetPrimes(BitGenerate(BitInit(n), n), n)
WheelPrimes(n) == WheelGetPrimes(WheelGenerate(WheelInit(n), n), n)
\* the number of primes <= n
PrimePi(n) == Cardinality({k \in 0..n : IsPrimeNumber(k)})

\* C1: for every bound the Dense, Packed and Wheel variants return the same
\* sequence from getPrimes() and the same getPrimeCount(): whatever a
\* sequential engine returns is what each of the three variants returns for
\* that bound.
C1_CrossVariantAgreement ==
  cls \in SeqClasses =>
    /\ ret.op = "getPrimes" =>
         /\ ret.primes = DensePrimes(limit)
         /\ ret.primes = PackedPrimes(limit)
         /\ ret.primes = WheelPrimes(limit)
    /\ ret.op = "getPrimeCount" =>
         /\ ret.count = Len(DensePrimes(limit))
         /\ ret.count = Len(PackedPrimes(limit))
         /\ ret.count = Len(WheelPrimes(limit))

\* C2: in BasicSieve and BitSieve, once generated, the stored flag of every
\* n in 0..limit, and so the value isPrime(n) returns, is TRUE exactly when n
\* is a prime number, and getPrimeCount() is the number of primes <= limit.
C2_DensePackedCorrect ==
  cls \in {"BasicSieve", "BitSieve"} =>
    /\ generated =>
         \A n \in 0..limit : StoredFlag(cls, sieve, bits, n) = IsPrimeNumber(n)
    /\ (ret.op = "isPrime" /\ ret.err = "none") => ret.flag = IsPrimeNumber(ret.arg)
    /\ ret.op = "getPrimeCount" => ret.count = PrimePi(limit)
    /\ ret.op = "getPrimes" => Len(ret.primes) = PrimePi(limit)

\* C2 witness: a two-word BitSieve has answered isPrime(67) with true
C2_Witness ==
  /\ cls = "BitSieve" /\ limit = 70 /\ generated
  /\ ret.op = "isPrime" /\ ret.arg = 67 /\ ret.flag

\* C3: in WheelSieve, for every bound, isPrime(n) is TRUE exactly when n is a
\* prime number, for every n in 0..limit, and getPrimeCount() is the number of
\* primes <= limit.
C3_WheelCorrect ==
  cls = "WheelSieve" =>
    /\ (ret.op = "isPrime" /\ ret.err = "none") => ret.flag = IsPrimeNumber(ret.arg)
    /\ ret.op = "getPrimeCount" => ret.count = PrimePi(limit)

\* what a parallel engine returns from getPrimes() with thread count 1: its
\* generate() falls back to the sequential generate() of its base class
SingleThreadPrimes(c, n) ==
  GetPrimesOf(c, SeqGenerateSieve(c, InitSieve(c, n), n),
                 SeqGenerateBits(c, InitBits(c, n), n), n)

\* C4: whatever the thread count and however the worker threads interleave,
\* getPrimes() of a parallel engine returns the sequence the same engine
\* returns with thread count 1.
C4_ParallelMatchesSingleThread ==
  (cls \in ParClasses /\ ret.op = "getPrimes") =>
    ret.primes = SingleThreadPrimes(cls, limit)

\* C5: in every variant and every state of the engine, the number
\* getPrimeCount() returns is the length of the sequence getPrimes() returns:
\* the two walks agree on the storage as it stands and as generate() leaves
\* it, and a returned count or sequence agrees with the other accessor.
C5_CountIsLength ==
  /\ GetPrimeCountOf(cls, sieve, bits, limit)
       = Len(GetPrimesOf(cls, sieve, bits, limit))
  /\ (~generated /\ call = NoCall) =>
       GetPrimeCountOf(cls, SeqGenerateSieve(cls, sieve, limit),
                            SeqGenerateBits(cls, bits, limit), limit)
         = Len(GetPrimesOf(cls, SeqGenerateSieve(cls, sieve, limit),
                                SeqGenerateBits(cls, bits, limit), limit))
  /\ ret.op = "getPrimeCount" =>
       ret.count = Len(GetPrimesOf(cls, sieve, bits, limit))
  /\ ret.op = "getPrimes" =>
       Len(ret.primes) = GetPrimeCountOf(cls, sieve, bits, limit)

\* C5 witness: a WheelSieve that was not generated has answered
\* getPrimeCount() with 5, the length of the five primes getPrimes() returns
C5_Witness ==
  /\ cls = "WheelSieve" /\ limit = 11 /\ generated
  /\ ret.op = "getPrimeCount" /\ ret.count = 5
  /\ Len(GetPrimesOf(cls, sieve, bits, limit)) = 5

C7_SmallestBounds ==
  /\ (limit \in {0, 1} /\ ret.op = "getPrimes") => ret.primes = <<>>
  /\ (limit \in {0, 1} /\ ret.op = "getPrimeCount") => ret.count = 0
  /\ (limit = 2 /\ ret.op = "getPrimes") => ret.primes = <<2>>
  /\ (limit = 2 /\ ret.op = "getPrimeCount") => ret.count = 1
  /\ (limit = 5 /\ ret.op = "getPrimes") => ret.primes = <<2, 3, 5>>
  /\ (limit = 5 /\ ret.op = "getPrimeCount") => ret.count = 3

\* C7 witness: a ParallelWheelSieve of limit 5 has returned <<2,3,5>>
C7_Witness ==
  /\ cls = "ParallelWheelSieve" /\ limit = 5
  /\ ret.op = "getPrimes" /\ ret.primes = <<2, 3, 5>>

\* C8: in every variant, generated or not, isPrime(num) with num > limit ends
\* with the exception of the range check and returns no boolean.
C8_IsPrimeBeyondLimitThrows ==
  (ret.op = "isPrime" /\ ret.arg > limit) =>
    (ret.err = "invalid_argument" /\ ~ret.flag)

\* C8 witness: a generated engine has thrown on isPrime(limit + 1)
C8_Witness ==
  /\ generated /\ limit = 7
  /\ ret.op = "isPrime" /\ ret.arg = limit + 1 /\ ret.err = "invalid_argument"

\* C9: generate() on a generated engine returns at once: it starts no
\* parallel region, changes no storage flag, leaves the engine generated, and
\* getPrimes() returns the same sequence before and after it.
C9_GenerateIdempotent ==
  [][(generated /\ Generate) =>
       /\ call' = NoCall /\ workers' = NoWorkers /\ master' = NoMaster
       /\ sieve' = sieve /\ bits' = bits
       /\ generated'
       /\ ret' = Returned("generate", 0)
       /\ GetPrimesOf(cls, sieve', bits', limit) = GetPrimesOf(cls, sieve, bits, limit)]_vars

\* C9 witness: a ParallelBasicSieve on its OpenMP path is generated and
\* generate() has returned
C9_Witness ==
  /\ cls = "ParallelBasicSieve" /\ limit = 9 /\ useParallel /\ threadCount = 4
  /\ generated /\ call = NoCall /\ ret.op = "generate"

\* C10: isGenerated() is false after construction, true when generate() has
\* returned, and no step of the engine makes it false again.
C10_GeneratedLifecycle ==
  /\ ~generated
  /\ [][/\ generated => generated'
        /\ ret'.op = "generate" => generated']_vars

\* C10 witness: a generated parallel engine on which setThreadCount was called
C10_Witness ==
  /\ cls = "ParallelBitSieve" /\ generated /\ ret.op = "setThreadCount"
  /\ threadCount = 2

\* what a query returns
IsQuery(r) ==
  r.op \in {"getPrimes", "getPrimeCount"} \/ (r.op = "isPrime" /\ r.err = "none")

\* C11: when isPrime(n) with n <= limit, getPrimes() or getPrimeCount() has
\* returned, the engine is generated, whether or not it was before, and the
\* value returned is the one the operation reads from the generated storage,
\* which is what it returns after an explicit generate(); in the sequential
\* engines that is the value read from the storage generate() computes from
\* the constructed one.
C11_QueriesGenerateFirst ==
  IsQuery(ret) =>
    /\ generated
    /\ ret = Result(ret.op, ret.arg, sieve, bits)
    /\ cls \in SeqClasses =>
         ret = Result(ret.op, ret.arg,
                      SeqGenerateSieve(cls, InitSieve(cls, limit), limit),
                      SeqGenerateBits(cls, InitBits(cls, limit), limit))

\* C11 witness: isPrime(13) on a WheelSieve has returned true and the engine
\* is generated
C11_Witness ==
  /\ cls = "WheelSieve" /\ limit = 13 /\ generated
  /\ ret.op = "isPrime" /\ ret.arg = 13 /\ ret.flag

\* a step of one of the read-only accessors
AccessorStep == GetPrimes \/ GetPrimeCount \/ GetMemoryUsage \/ GetThreadInfo

\* C12: getPrimes, getPrimeCount, getMemoryUsage and the thread summary leave
\* the storage, the generated flag and the thread configuration as they
\* were, in every lifecycle state.
C12_AccessorsChangeNothing ==
  [][AccessorStep => UNCHANGED <<storage, generated, threadCfg>>]_vars

\* C12 as the code has it: the accessors leave the storage, the generated
\* flag and the thread configuration as they were on a generated engine, and
\* getMemoryUsage and the thread summary do so in every lifecycle state
\* (getPrimes and getPrimeCount on a not-yet-generated engine run generate()).
C12_AccessorsChangeNothingOnceGenerated ==
  [][/\ (generated /\ AccessorStep) =>
          UNCHANGED <<storage, generated, threadCfg, region>>
     /\ (GetMemoryUsage \/ GetThreadInfo) =>
          UNCHANGED <<storage, generated, threadCfg, region>>]_vars

\* C12 witness: the thread summary of a generated ParallelBitSieve was read
C12_Witness ==
  /\ cls = "ParallelBitSieve" /\ generated
  /\ ret.op = "getThreadInfo" /\ ret.count = 4 /\ ret.flag

\* C13: printPrimes and savePrimesToFile on an engine that is not generated
\* end with the not-generated exception, write no prime, and change neither
\* the storage, the generated flag nor the thread configuration, and start
\* no generation.
C13_ExportNeedsGenerated ==
  [][(~generated /\ (PrintPrimes \/ SavePrimesToFile)) =>
       /\ ret'.err = "runtime_error"
       /\ ret'.primes = <<>> /\ ~ret'.flag
       /\ UNCHANGED <<storage, generated, threadCfg, region>>]_vars

\* C13 witness: savePrimesToFile has thrown on a WheelSieve that is not generated
C13_Witness ==
  /\ cls = "WheelSieve" /\ ~generated /\ limit = 30
  /\ ret.op = "savePrimesToFile" /\ ret.err = "runtime_error"

\* a sequence of numbers that strictly ascends (so it holds no number twice)
\* and holds only numbers of 2..n
AscendingWithin(q, n) ==
  /\ \A i \in 1..(Len(q) - 1) : q[i] < q[i + 1]
  /\ \A i \in DOMAIN q : 2 <= q[i] /\ q[i] <= n

\* C14: in every variant the sequence getPrimes() returns strictly ascends,
\* holds no number twice and holds only numbers of 2..limit: the sequence it
\* reads from any storage the engine reaches, and every sequence returned.
C14_PrimesAscending ==
  /\ AscendingWithin(GetPrimesOf(cls, sieve, bits, limit), limit)
  /\ ret.op = "getPrimes" => AscendingWithin(ret.primes, limit)

\* C14 witness: a BitSieve of two words has returned the 19 primes up to 70
C14_Witness ==
  /\ cls = "BitSieve" /\ limit = 70
  /\ ret.op = "getPrimes" /\ Len(ret.primes) = 19 /\ ret.primes[19] = 67

\* the thread count the thread argument t stands for: t itself when positive,
\* else the smaller of omp_get_max_threads() and hardware_concurrency()
ExpectedThreadCount(t) ==
  IF t > 0 THEN t
  ELSE IF ompMaxThreads < hardwareConcurrency THEN ompMaxThreads
       ELSE hardwareConcurrency

\* C15: after the constructor of a parallel engine and after
\* setThreadCount(t), the thread count is t when t > 0 and the auto-detected
\* value otherwise, and the parallel-enabled flag is false whenever that
\* thread count is 1.
C15_ThreadConfigResolved ==
  (IsParallelClass /\ ret.op \in {"construct", "setThreadCount"}) =>
    /\ ret.op = "setThreadCount" => threadCount = ExpectedThreadCount(ret.arg)
    /\ ret.op = "construct" => \E t \in ThreadArgs : threadCount = ExpectedThreadCount(t)
    /\ threadCount = 1 => ~useParallel

\* C16: for every n >= 7 within the limit that is divisible by none of 2, 3
\* and 5, wheelIndexToNum(numToWheelIndex(n)) is n, and no other such number
\* has the index of n.
C16_WheelIndexRoundTrip ==
  (ret.op = "numToWheelIndex" /\ ret.arg >= 7 /\ OnWheel(ret.arg)) =>
    /\ wheelIndexToNum(ret.count) = ret.arg
    /\ \A m \in 7..limit :
         (OnWheel(m) /\ numToWheelIndex(m) = ret.count) => m = ret.arg

\* C17: while generate() of a parallel engine runs on its OpenMP path, a
\* thread that is about to read the flag of a candidate p' does so only when no
\* other thread still has a smaller candidate to test or to mark for, and at
\* most one thread walks the candidates.
C17_SequentialDependency ==
  /\ \A t \in DOMAIN workers :
       workers[t].pc = "check" =>
         \A u \in DOMAIN workers \ {t} :
           workers[u].pc # "done" => workers[u].p > workers[t].p
  /\ Cardinality({t \in DOMAIN workers : workers[t].pc = "check"}) <= 1

\* C18: when generate() of a ParallelBitSieve has returned, no marking was
\* lost: for every candidate p up to sqrt(limit) whose bit says prime, every
\* multiple of p from p * p to the limit is marked composite.
C18_PackedMarksNotLost ==
  (cls = "ParallelBitSieve" /\ generated) =>
    \A p \in 2..SqrtLimit(limit) :
      getBit(bits, p) => \A m \in Multiples(p * p, limit, p) : ~getBit(bits, m)

\* C19: in ParallelBasicSieve and ParallelWheelSieve the flag writes of
\* different threads do not interfere.  When the marking for the candidates
\* has joined (generate() of ParallelBasicSieve has returned; the team of
\* markMultiplesParallel(p) of ParallelWheelSieve is done), every multiple
\* p * p + k * p <= limit of a candidate p flagged prime is marked composite,
\* and no flag has changed but those of such multiples.
C19_FlagWritesIndependent ==
  /\ (cls = "ParallelBasicSieve" /\ generated) =>
       /\ \A p \in 2..SqrtLimit(limit) :
            sieve[p] => \A m \in Multiples(p * p, limit, p) : ~sieve[m]
       /\ \A i \in 0..limit :
            sieve[i] # BasicInit(limit)[i] =>
              \E p \in 2..SqrtLimit(limit) : i \in Multiples(p * p, limit, p)
  /\ (cls = "ParallelWheelSieve" /\ master.pc = "marking"
        /\ \A t \in DOMAIN workers : workers[t].pc = "done") =>
       /\ \A m \in Multiples(master.p * master.p, limit, master.p) : ~sieve[m]
       /\ \A i \in 0..limit :
            sieve[i] # WheelInit(limit)[i] =>
              \E p \in WHEEL_PRIMES[1]..master.p : i \in Multiples(p * p, limit, p)

\* the smallest number greater than n that is divisible by none of 2, 3, 5
NextOnWheel(n) == SetMin({k \in (n + 1)..(n + WHEEL_SIZE) : OnWheel(k)})

\* C20: getNextWheelNumber(n) is the smallest number greater than n divisible
\* by none of 2, 3 and 5, for every n >= 7 that is itself divisible by none of
\* them; it is 3, 5, 7 for n = 2, 3, 5 and 2 for n < 2.
C20_NextWheelNumber ==
  ret.op = "getNextWheelNumber" =>
    /\ (ret.arg >= 7 /\ OnWheel(ret.arg)) => ret.count = NextOnWheel(ret.arg)
    /\ ret.arg < 2 => ret.count = 2
    /\ ret.arg = 2 => ret.count = 3
    /\ ret.arg = 3 => ret.count = 5
    /\ ret.arg = 5 => ret.count = 7

\* C21: when generate() of a Wheel engine has returned, every multiple of a
\* candidate p flagged prime, from p * p to the limit, is marked composite,
\* the multiples off the wheel residues included.
C21_WheelMarksAllMultiples ==
  (Family(cls) = "Wheel" /\ generated) =>
    \A p \in 2..SqrtLimit(limit) :
      sieve[p] => \A m \in Multiples(p * p, limit, p) : ~sieve[m]

\* C22: whatever the interleaving of its team, getNextWheelNumberParallel(current)
\* returns the smallest number greater than current that is divisible by none
\* of 2, 3 and 5, or limit + 1 when that number is beyond the limit: the
\* candidate generate() goes on with after the team has joined is that number.
C22_ParallelNextIsSequentialNext ==
  [][WheelStepJoin =>
       master'.p = IF NextOnWheel(master.p) <= limit
                     THEN NextOnWheel(master.p) ELSE limit + 1]_vars

\* C23: in a Wheel engine, from construction on, during generate() and after
\* it, every multiple of 2, 3 or 5 up to the limit other than 2, 3 and 5 is
\* flagged non-prime, and 2, 3 and 5 are flagged prime when within the limit.
C23_WheelPreMarked ==
  Family(cls) = "Wheel" =>
    \A i \in 0..limit :
      /\ i \in {2, 3, 5} => sieve[i]
      /\ (i \notin {2, 3, 5} /\ ~OnWheel(i)) => ~sieve[i]

\* C23 witness: a ParallelWheelSieve in the middle of generate(), after the
\* marking for 7, with 45 flagged non-prime and 5 flagged prime
C23_Witness ==
  /\ cls = "ParallelWheelSieve" /\ limit = 49 /\ master.pc = "stepping"
  /\ ~sieve[49] /\ ~sieve[45] /\ sieve[5]

\* C24: in a Packed engine a storage bit equal to 1 means composite and 0 means
\* still-candidate: from construction on the bits of 0 and 1 are 1, on an
\* engine not yet generated the bit of every index from 2 to the limit is 0,
\* and a bit that is 0 after generate() belongs to a prime.
C24_BitOneMeansComposite ==
  Family(cls) = "Bit" =>
    \A i \in 0..limit :
      /\ i \in {0, 1} => getBit(bits, i)
      /\ (i >= 2 /\ ~generated /\ call = NoCall) => ~getBit(bits, i)
      /\ (i >= 2 /\ generated /\ ~getBit(bits, i)) => IsPrimeNumber(i)

\* C25: construction, generate() and the queries of every variant use only
\* indices in [0, limit], and every index they use lies in the elements the
\* constructor allocated, for every bound from 0 to the largest std::size_t.
C25_AccessesInRange ==
  ret.flag => (ret.count <= limit /\ Slot(cls, ret.count) \in Allocated(cls, limit))

\* C26: generate() never marks a prime composite: once generate() has returned,
\* in every variant and after every interleaving, the stored flag of each
\* prime q <= limit (what isPrime(q) returns) is still set, and an isPrime(q)
\* that returned for a prime q returned true.
C26_PrimesNeverCleared ==
  generated =>
    /\ \A q \in 0..limit : IsPrimeNumber(q) => StoredFlag(cls, sieve, bits, q)
    /\ (ret.op = "isPrime" /\ ret.err = "none" /\ IsPrimeNumber(ret.arg)) => ret.flag

\* C27: storage is monotone: in every step of every variant, the steps of the
\* parallel workers included, an index whose flag marks it composite keeps
\* that marking; it is never a still-candidate again.
C27_StorageMonotone ==
  [][\A i \in 0..limit :
       ~StoredFlag(cls, sieve, bits, i) => ~StoredFlag(cls, sieve', bits', i)]_vars

\* C28: generate() terminates for every bound and every team: an operation
\* that entered generate() on the OpenMP path returns; the index of a
\* thread's marking loop only grows while it marks for one p; a thread's
\* candidate p only grows, and so does the p of ParallelWheelSieve::generate
\* across getNextWheelNumberParallel; the sequential wheel stepping
\* getNextWheelNumber(m) is greater than m.
C28_GenerateTerminates ==
  /\ (call # NoCall) ~> (call = NoCall)
  /\ [](\A m \in 0..limit : getNextWheelNumber(m) > m)
  /\ [][/\ WheelStepJoin => master'.p > master.p
        /\ \A t \in DOMAIN workers :
             (t \in DOMAIN workers' /\ workers'[t].pc \in {"load", "store", "check"}
                /\ workers[t].pc \in {"load", "store", "check"}) =>
               /\ workers'[t].p >= workers[t].p
               /\ (workers'[t].p = workers[t].p /\ workers[t].pc # "check")
                     => workers'[t].i >= workers[t].i
               /\ (workers[t].pc = "store" /\ workers'[t] # workers[t]
                     /\ workers'[t].p = workers[t].p)
                     => workers'[t].i > workers[t].i]_vars

\* C28 witness: generate() of a ParallelWheelSieve has returned after marking
\* for 7 and stepping with a team of 2
C28_Witness ==
  /\ cls = "ParallelWheelSieve" /\ limit = FirstWheelSquare /\ ompMaxThreads = 2
  /\ generated /\ ret.op = "generate" /\ ~sieve[FirstWheelSquare]

\* C29: an isPrime(num) with num > limit that ends with the range error has
\* run no generation: the generated flag and every storage flag are as before
\* the call and no parallel region was entered, so an engine that was not
\* generated is still not generated.
C29_RangeErrorBeforeGeneration ==
  [][(IsPrime /\ ret'.err = "invalid_argument") =>
       /\ ret'.arg > limit
       /\ generated' = generated
       /\ sieve' = sieve /\ bits' = bits
       /\ call' = NoCall /\ workers' = NoWorkers /\ master' = NoMaster]_vars

\* C29 witness: isPrime(10) has thrown on a BitSieve of limit 9 that is
\* still not generated, with the bit of 4 still set
C29_Witness ==
  /\ cls = "BitSieve" /\ limit = 9 /\ ~generated
  /\ ret.op = "isPrime" /\ ret.arg = 10 /\ ret.err = "invalid_argument"
  /\ getBit(bits, 4)

\* C30: the configured thread count of a parallel engine is at least 1 after
\* construction and after setThreadCount, for every thread argument (zero and
\* negative ones included) and whatever the platform reports as hardware
\* concurrency (0 included).
C30_ThreadCountPositive ==
  (IsParallelClass /\ ret.op \in {"construct", "setThreadCount"}) => threadCount >= 1

====
